---- MODULE Spec2Model ----
(***************************************************************************)
(* Launchbox: the deployment pipeline (builder.build, runner.run,          *)
(* DatabaseManager) against a container runtime.                           *)
(*                                                                         *)
(* The container runtime is a set of container records; a name is taken    *)
(* by at most one container because the runtime refuses to create a second *)
(* one (the code never checks this itself).  Every call to the runtime is  *)
(* one step; the local computation that follows it belongs to that step.   *)
(*                                                                         *)
(* The configuration (LaunchboxConfig, the .env file, the command line     *)
(* run() assembles from them) is a second state machine over Python values *)
(* (SpecConfig); SpecTwoApps and SpecRace are the pipeline for two         *)
(* applications and for two deployments at the same time.                  *)
(***************************************************************************)
EXTENDS Naturals, Sequences, FiniteSets, TLC

VARIABLES
    containers,          \* the runtime's containers: [name, id, status, service]
    images,              \* the local image store (tags)
    pc,                  \* per invocation: the next step
    app_name,            \* per invocation: the application being deployed
    trigger,             \* per invocation: "dashboard" (api_deploy_app) or "hook" (post-receive)
    app_exists,          \* os.path.exists(app_path) during this invocation
    dockerfile_exists,   \* os.path.exists(dockerfile_path) during this invocation
    config,              \* LaunchboxConfig(app_path).config["database"] as loaded
    build_result,        \* what the caller of build() observes
    run_result,          \* what the caller of run() observes
    db_exception,        \* what create_database_for_app raised inside run()
    db_connection_info,  \* runner.py:29
    attempts,            \* the readiness wait's loop variable: iterations completed
    ready,               \* a readiness probe returned exit code 0 in this invocation
    previous,            \* the containers named app_name when run() was entered
    container_id,        \* id of the container created by this invocation's docker run
    last_call,           \* the runtime call issued by the last step
    yaml_file,           \* launchbox.yaml of an application directory
    env_file,            \* .env of the same directory
    self_config,         \* LaunchboxConfig.config of the object built from them
    returned,            \* the last call on that object and what it returned
    run_cmd,             \* the docker run command line run() assembles from them
    cert_dir,            \* the files of SSLManager.cert_dir
    mkcert_installed,    \* shutil.which("mkcert") finds the tool
    ca_installed,        \* mkcert -install has put the tool's root into the trust store
    tool_calls,          \* the mkcert commands the last SSLManager call has run
    ssl_returned,        \* the last SSLManager call and what it returned or raised
    issued               \* per application, what its first successful retrieval returned

\* the configuration resolver's state
cfg_vars == <<yaml_file, env_file, self_config, returned, run_cmd>>

\* the certificate manager's state
ssl_vars == <<cert_dir, mkcert_installed, ca_installed, tool_calls, ssl_returned, issued>>

vars == <<containers, images, pc, app_name, trigger, app_exists, dockerfile_exists,
          config, build_result, run_result, db_exception, db_connection_info,
          attempts, ready, previous, container_id, last_call,
          yaml_file, env_file, self_config, returned, run_cmd,
          cert_dir, mkcert_installed, ca_installed, tool_calls, ssl_returned, issued>>

----------------------------------------------------------------------------
(* Universe *)

\* invocations: dashboard requests and hook processes
Procs == {1, 2}
Apps == {"blog"}
Triggers == {"dashboard", "hook"}
\* "sqlite" stands for every database.type the code does not know
DbTypes == {"postgresql", "mysql", "mongodb", "sqlite"}
Configs == [db_enabled : BOOLEAN, db_type : DbTypes]
ExitCodes == {0, 1}

\* database_manager.py:204, 223, 242: timeout: int = 30
timeout == 30

----------------------------------------------------------------------------
(* Results and exceptions *)

Pending == [status |-> "pending", type |-> "none", msg |-> <<>>]
Returned == [status |-> "returned", type |-> "True", msg |-> <<>>]
Raised(type, msg) == [status |-> "raised", type |-> type, msg |-> msg]

\* rc: the exit code, or 1 when the call raised; n numbers the probes of one
\* readiness wait and is 0 for every other call
NoCall == [op |-> "none", name |-> "", rc |-> 0, raised |-> FALSE, n |-> 0]
Call(op, name, rc) == [op |-> op, name |-> name, rc |-> rc, raised |-> FALSE, n |-> 0]
Probe(name, rc, raised, n) == [op |-> "exec", name |-> name, rc |-> rc, raised |-> raised, n |-> n]

None == [DB_TYPE |-> "None"]

----------------------------------------------------------------------------
(* Naming *)

\* builder.py:30, runner.py:34
image_name(app) == "launchbox-" \o app

db_suffix(db_type) ==
    CASE db_type = "postgresql" -> "postgres"
      [] db_type = "mysql" -> "mysql"
      [] db_type = "mongodb" -> "mongodb"
      [] OTHER -> ""

db_label(db_type) ==
    CASE db_type = "postgresql" -> "PostgreSQL"
      [] db_type = "mysql" -> "MySQL"
      [] db_type = "mongodb" -> "MongoDB"
      [] OTHER -> ""

\* database_manager.py:54, 105, 156
container_name(app, db_type) == app \o "_" \o db_suffix(db_type)

----------------------------------------------------------------------------
(* The runtime *)

Named(cs, name) == {c \in cs : c.name = name}

UsedIds(name) ==
    {c.id : c \in Named(containers, name)}
        \cup UNION {{c.id : c \in Named(previous[p], name)} : p \in Procs}

\* the runtime gives every container an id no other container has or had;
\* containers whose status is not "running" (created, exited, dead) are "exited"
FreshId(name) ==
    CHOOSE n \in 0..Cardinality(UsedIds(name)) :
        /\ n \notin UsedIds(name)
        /\ \A m \in 0..Cardinality(UsedIds(name)) : m \notin UsedIds(name) => n <= m

NewContainer(name, status, service) ==
    [name |-> name, id |-> FreshId(name), status |-> status, service |-> service]

SetStatus(cs, name, status) ==
    {IF c.name = name THEN [c EXCEPT !.status = status] ELSE c : c \in cs}

----------------------------------------------------------------------------
(* Python values, as yaml.safe_load and the configuration code produce them.
   t is the type, v the str() of a scalar, m the mapping of a dict.  A raised
   exception travels as a value of type "raise" whose v is the exception type. *)

PyNone == [t |-> "none", v |-> "None", m |-> <<>>]
PyBool(b) == [t |-> "bool", v |-> IF b THEN "True" ELSE "False", m |-> <<>>]
PyInt(digits) == [t |-> "int", v |-> digits, m |-> <<>>]
PyStr(s) == [t |-> "str", v |-> s, m |-> <<>>]
PyDict(m) == [t |-> "dict", v |-> "{}", m |-> m]
PyRaise(e) == [t |-> "raise", v |-> e, m |-> <<>>]

\* bool(x)
truthy(x) ==
    CASE x.t = "none" -> FALSE
      [] x.t = "bool" -> x.v = "True"
      [] x.t = "int" -> x.v # "0"
      [] x.t = "str" -> x.v # ""
      [] x.t = "dict" -> DOMAIN x.m # {}

\* x[key] with a string key
getitem(x, key) ==
    CASE x.t = "raise" -> x
      [] x.t = "dict" -> IF key \in DOMAIN x.m THEN x.m[key] ELSE PyRaise("KeyError")
      [] OTHER -> PyRaise("TypeError")

\* x.get(key, default)
dict_get(x, key, default) ==
    CASE x.t = "raise" -> x
      [] x.t = "dict" -> IF key \in DOMAIN x.m THEN x.m[key] ELSE default
      [] OTHER -> PyRaise("AttributeError")

\* x.copy()
dict_copy(x) ==
    CASE x.t = "raise" -> x
      [] x.t = "dict" -> x
      [] OTHER -> PyRaise("AttributeError")

\* str(x), what an f-string puts in place of {x}
str(x) == x.v

\* config_parser.py:18-42
default_config ==
    PyDict([app |-> PyDict([port |-> PyInt("3000"),
                            health_check |-> PyNone,
                            build |-> PyDict([dockerfile |-> PyStr("Dockerfile"),
                                              context |-> PyStr(".")])]),
            resources |-> PyDict([memory |-> PyNone, cpu |-> PyNone]),
            environment |-> PyDict(<<>>),
            database |-> PyDict([enabled |-> PyBool(FALSE),
                                 type |-> PyStr("postgresql"),
                                 version |-> PyStr("13"),
                                 name |-> PyNone]),
            https |-> PyDict([enabled |-> PyBool(FALSE),
                              redirect_http |-> PyBool(TRUE)])])

\* the result starts empty, not as a copy of the base
merge_into_empty(base, override) == override

\* dict.update: no descent into the mappings
shallow_merge(base, override) ==
    [key \in DOMAIN base \cup DOMAIN override |->
        IF key \in DOMAIN override THEN override[key] ELSE base[key]]

\* config_parser.py:61-69, on the mappings of the two dicts
RECURSIVE _deep_merge(_, _)
_deep_merge(base, override) ==
    [key \in DOMAIN base \cup DOMAIN override |->
        IF key \notin DOMAIN override
        THEN base[key]
        ELSE IF key \in DOMAIN base /\ base[key].t = "dict" /\ override[key].t = "dict"
        THEN PyDict(_deep_merge(base[key].m, override[key].m))
        ELSE override[key]]

\* no default for an absent file
load_config_without_default(file) ==
    IF file.exists /\ file.parses /\ file.value.t = "dict"
    THEN PyDict(_deep_merge(default_config.m, file.value.m))
    ELSE PyDict(<<>>)

\* config_parser.py:44-59: the file is absent, or yaml.safe_load raises, or it
\* returns file.value; a value that is not a dict has no items() and the
\* exception handler answers with the default
_load_config(file) ==
    IF ~file.exists
    THEN default_config
    ELSE IF ~file.parses
    THEN default_config
    ELSE LET user_config == IF truthy(file.value) THEN file.value ELSE PyDict(<<>>) IN
         IF user_config.t # "dict"
         THEN default_config
         ELSE PyDict(_deep_merge(default_config.m, user_config.m))

\* config_parser.py:71-73
get_port(c) == getitem(getitem(c, "app"), "port")

\* config_parser.py:75-77
get_dockerfile(c) == getitem(getitem(getitem(c, "app"), "build"), "dockerfile")

\* config_parser.py:79-81
get_build_context(c) == getitem(getitem(getitem(c, "app"), "build"), "context")

\* config_parser.py:114-116
get_health_check(c) == getitem(getitem(c, "app"), "health_check")

\* config_parser.py:118-120
config_is_database_enabled(c) == getitem(getitem(c, "database"), "enabled")

\* config_parser.py:122-124
get_database_config(c) == getitem(c, "database")

\* config_parser.py:126-128
is_https_enabled(c) == getitem(getitem(c, "https"), "enabled")

\* config_parser.py:130-132
should_redirect_http(c) == getitem(getitem(c, "https"), "redirect_http")

\* config_parser.py:102-112
get_resource_limits(c) ==
    LET memory == getitem(getitem(c, "resources"), "memory")
        cpu == getitem(getitem(c, "resources"), "cpu")
    IN  IF memory.t = "raise" THEN memory
        ELSE IF cpu.t = "raise" THEN cpu
        ELSE PyDict([key \in (IF truthy(memory) THEN {"memory"} ELSE {})
                          \cup (IF truthy(cpu) THEN {"cpus"} ELSE {}) |->
                        IF key = "memory" THEN memory ELSE PyStr(str(cpu))])

\* The characters str.strip() removes
Whitespace == {" ", "\n"}

RECURSIVE lstrip(_)
lstrip(s) == IF s # <<>> /\ Head(s) \in Whitespace THEN lstrip(Tail(s)) ELSE s

RECURSIVE rstrip(_)
rstrip(s) ==
    IF s # <<>> /\ s[Len(s)] \in Whitespace THEN rstrip(SubSeq(s, 1, Len(s) - 1)) ELSE s

\* line.strip()
strip(s) == rstrip(lstrip(s))

\* the position of the last "=" of the line
find_last(s, ch) ==
    CHOOSE i \in 1..Len(s) : s[i] = ch /\ \A j \in (i + 1)..Len(s) : s[j] # ch

\* the position of the first "=" of the line, where split('=', 1) cuts
find(s, ch) ==
    CHOOSE i \in 1..Len(s) : s[i] = ch /\ \A j \in 1..(i - 1) : s[j] # ch

\* the string made of the characters of s
RECURSIVE text(_)
text(s) == IF s = <<>> THEN "" ELSE Head(s) \o text(Tail(s))

\* d[key] = value
setitem(d, key, value) ==
    [k \in DOMAIN d \cup {key} |-> IF k = key THEN value ELSE d[k]]

\* config_parser.py:92-96, one line of the .env file
read_line(env_vars, raw) ==
    LET line == strip(raw) IN
    IF line # <<>> /\ Head(line) # "#" /\ "=" \in {line[i] : i \in 1..Len(line)}
    THEN LET cut == find(line, "=") IN
         setitem(env_vars,
                 text(strip(SubSeq(line, 1, cut - 1))),
                 PyStr(text(strip(SubSeq(line, cut + 1, Len(line))))))
    ELSE env_vars

RECURSIVE read_lines(_, _)
read_lines(env_vars, lines) ==
    IF lines = <<>>
    THEN env_vars
    ELSE read_lines(read_line(env_vars, Head(lines)), Tail(lines))

\* What the user wrote in one line of .env: an assignment of value to key
\* (padded with blanks or not), a comment, a blank line, a word without "="
render(entry) ==
    CASE entry.kind = "assign" ->
            IF entry.pad
            THEN <<" ">> \o entry.key \o <<" ", "=", " ">> \o entry.value \o <<" ", "\n">>
            ELSE entry.key \o <<"=">> \o entry.value \o <<"\n">>
      [] entry.kind = "comment" -> <<"#">> \o entry.key \o <<"=">> \o entry.value \o <<"\n">>
      [] entry.kind = "blank" -> <<" ", "\n">>
      [] entry.kind = "bare" -> entry.key \o <<"\n">>

\* the lines of the .env file
file_lines(entries) == [i \in 1..Len(entries) |-> render(entries[i])]

\* config_parser.py:83-100
get_environment_vars(c, env) ==
    LET env_vars == dict_copy(getitem(c, "environment")) IN
    IF env_vars.t = "raise"
    THEN env_vars
    ELSE IF env.exists
    THEN PyDict(read_lines(env_vars.m, file_lines(env.entries)))
    ELSE env_vars

\* database_manager.py:261-271
_get_postgres_connection_info(name, db_name) ==
    PyDict([DATABASE_URL |-> PyStr("postgresql://launchbox:launchbox123@" \o name
                                       \o ":5432/" \o str(db_name)),
            DB_HOST |-> PyStr(name),
            DB_PORT |-> PyStr("5432"),
            DB_NAME |-> db_name,
            DB_USER |-> PyStr("launchbox"),
            DB_PASSWORD |-> PyStr("launchbox123"),
            DB_TYPE |-> PyStr("postgresql")])

\* database_manager.py:273-283
_get_mysql_connection_info(name, db_name) ==
    PyDict([DATABASE_URL |-> PyStr("mysql://launchbox:launchbox123@" \o name
                                       \o ":3306/" \o str(db_name)),
            DB_HOST |-> PyStr(name),
            DB_PORT |-> PyStr("3306"),
            DB_NAME |-> db_name,
            DB_USER |-> PyStr("launchbox"),
            DB_PASSWORD |-> PyStr("launchbox123"),
            DB_TYPE |-> PyStr("mysql")])

\* database_manager.py:285-295
_get_mongodb_connection_info(name, db_name) ==
    PyDict([DATABASE_URL |-> PyStr("mongodb://launchbox:launchbox123@" \o name
                                       \o ":27017/" \o str(db_name)),
            DB_HOST |-> PyStr(name),
            DB_PORT |-> PyStr("27017"),
            DB_NAME |-> db_name,
            DB_USER |-> PyStr("launchbox"),
            DB_PASSWORD |-> PyStr("launchbox123"),
            DB_TYPE |-> PyStr("mongodb")])

\* database_manager.py:30-50 on a runtime where the sidecar comes up: what
\* create_database_for_app returns for application app with configuration c
create_database_for_app(app, c) ==
    LET enabled == config_is_database_enabled(c)
        db_config == get_database_config(c)
        db_type == dict_get(db_config, "type", PyStr("postgresql"))
        db_name == dict_get(db_config, "name", PyStr(app \o "_db"))
    IN  IF enabled.t = "raise" THEN enabled
        ELSE IF ~truthy(enabled) THEN PyNone
        ELSE IF db_type = PyStr("postgresql")
        THEN _get_postgres_connection_info(container_name(app, "postgresql"), db_name)
        ELSE IF db_type = PyStr("mysql")
        THEN _get_mysql_connection_info(container_name(app, "mysql"), db_name)
        ELSE IF db_type = PyStr("mongodb")
        THEN _get_mongodb_connection_info(container_name(app, "mongodb"), db_name)
        ELSE PyRaise("DatabaseError")

\* the keys already present keep their values
update_new_keys(d, other) ==
    [key \in DOMAIN d \cup DOMAIN other |-> IF key \in DOMAIN d THEN d[key] ELSE other[key]]

\* d.update(other)
update(d, other) ==
    [key \in DOMAIN d \cup DOMAIN other |-> IF key \in DOMAIN other THEN other[key] ELSE d[key]]

\* One option of the command line with its argument; an argument "key=value"
\* is kept as its two sides
Arg(flag, key, value) == [flag |-> flag, key |-> key, value |-> value]

\* runner.py:58-61: one -e key=value for every item of env_vars
RECURSIVE env_flags(_, _)
env_flags(env_vars, keys) ==
    IF keys = {}
    THEN <<>>
    ELSE LET key == CHOOSE k \in keys : TRUE IN
         <<Arg("-e", key, str(env_vars[key]))>> \o env_flags(env_vars, keys \ {key})

\* runner.py:63-66
resource_flags(limits) ==
    (IF "memory" \in DOMAIN limits THEN <<Arg("--memory", "", str(limits["memory"]))>> ELSE <<>>)
        \o (IF "cpus" \in DOMAIN limits THEN <<Arg("--cpus", "", str(limits["cpus"]))>> ELSE <<>>)

\* runner.py:69-85
health_flags(port, health_check) ==
    <<Arg("--health-cmd", "",
          "http://localhost:" \o str(port) \o str(dict_get(health_check, "path", PyStr("/health")))),
      Arg("--health-interval", "", str(dict_get(health_check, "interval", PyStr("30s")))),
      Arg("--health-timeout", "", str(dict_get(health_check, "timeout", PyStr("10s")))),
      Arg("--health-retries", "", str(dict_get(health_check, "retries", PyInt("3"))))>>

\* runner.py:49-56; the host of a rule is written without its backquotes
base_args(app, port) ==
    <<Arg("--name", "", app),
      Arg("--network", "", "traefik_default"),
      Arg("--label", "traefik.enable", "true"),
      Arg("--label", "traefik.http.routers." \o app \o ".rule", "Host(" \o app \o ".localhost)"),
      Arg("--label", "traefik.http.services." \o app \o ".loadbalancer.server.port", str(port))>>

\* runner.py:89-93
secure_router_labels(app) ==
    <<Arg("--label", "traefik.http.routers." \o app \o "-secure.rule",
          "Host(" \o app \o ".localhost)"),
      Arg("--label", "traefik.http.routers." \o app \o "-secure.tls", "true"),
      Arg("--label", "traefik.http.routers." \o app \o "-secure.entrypoints", "websecure")>>

\* runner.py:96-99
redirect_labels(app) ==
    <<Arg("--label", "traefik.http.routers." \o app \o ".middlewares", app \o "-redirect"),
      Arg("--label", "traefik.http.middlewares." \o app \o "-redirect.redirectscheme.scheme",
          "https")>>

\* the redirection not nested in the test of https.enabled
https_labels_unnested(app, enabled, redirect) ==
    (IF truthy(enabled) THEN secure_router_labels(app) ELSE <<>>)
        \o (IF truthy(redirect) THEN redirect_labels(app) ELSE <<>>)

\* runner.py:87-100, enabled and redirect being what is_https_enabled() and
\* should_redirect_http() return
https_labels(app, enabled, redirect) ==
    IF truthy(enabled)
    THEN secure_router_labels(app)
            \o (IF truthy(redirect) THEN redirect_labels(app) ELSE <<>>)
    ELSE <<>>

NoCmd == [status |-> "none", args |-> <<>>, error |-> ""]
CmdRaised(e) == [status |-> "raised", args |-> <<>>, error |-> e.v]
Cmd(args) == [status |-> "assembled", args |-> args, error |-> ""]

\* the first of the values xs that is a raised exception, PyNone when none is
RECURSIVE first_raise(_)
first_raise(xs) ==
    IF xs = <<>> THEN PyNone
    ELSE IF Head(xs).t = "raise" THEN Head(xs)
    ELSE first_raise(Tail(xs))

\* runner.py:21-103: the command line run() assembles for application app from
\* the two files of its directory, the sidecar (if any) having come up; the
\* order of the -e options is the one of env_flags
run_command(app, file, env) ==
    LET c == _load_config(file)
        port == get_port(c)
        env_vars == get_environment_vars(c, env)
        resource_limits == get_resource_limits(c)
        health_check == get_health_check(c)
        db_connection == create_database_for_app(app, _load_config(file))
        https == is_https_enabled(c)
        redirect == should_redirect_http(c)
        health == IF health_check.t # "raise" /\ truthy(health_check)
                  THEN dict_get(health_check, "path", PyNone) ELSE PyNone
        e == first_raise(<<port, env_vars, resource_limits, health_check, db_connection,
                           health, https,
                           IF https.t # "raise" /\ truthy(https) THEN redirect ELSE PyNone>>)
    IN  IF e.t = "raise"
        THEN CmdRaised(e)
        ELSE LET injected == IF truthy(db_connection)
                             THEN update(env_vars.m, db_connection.m)
                             ELSE env_vars.m
             IN  Cmd(base_args(app, port)
                       \o env_flags(injected, DOMAIN injected)
                       \o resource_flags(resource_limits.m)
                       \o (IF truthy(health_check) THEN health_flags(port, health_check) ELSE <<>>)
                       \o https_labels(app, https, redirect)
                       \o <<Arg("", "", image_name(app))>>)

----------------------------------------------------------------------------
(* The files an application directory may hold *)

Unset == [t |-> "unset", v |-> "", m |-> <<>>]
Missing == [t |-> "missing", v |-> "", m |-> <<>>]

\* a launchbox.yaml that yaml.safe_load turns into value
Loaded(value) == [exists |-> TRUE, parses |-> TRUE, value |-> value]
AbsentFile == [exists |-> FALSE, parses |-> FALSE, value |-> PyNone]
UnparseableFile == [exists |-> TRUE, parses |-> FALSE, value |-> PyNone]

AppOptions ==
    {Missing, PyNone, PyStr("web"),
     PyDict([port |-> PyInt("8080")]),
     PyDict([build |-> PyNone]),
     PyDict([build |-> PyDict([dockerfile |-> PyStr("Dockerfile.prod")])]),
     PyDict([health_check |-> PyDict([path |-> PyStr("/healthz")])]),
     PyDict([health_check |-> PyStr("on")])}

ResourcesOptions ==
    {Missing, PyNone, PyInt("1"),
     PyDict([memory |-> PyStr("512m")]),
     PyDict([memory |-> PyStr("512m"), cpu |-> PyInt("2")])}

EnvironmentOptions ==
    {Missing, PyNone, PyDict(<<>>),
     PyDict([A |-> PyBool(FALSE)]),
     PyDict([A |-> PyStr("block"), DB_HOST |-> PyStr("legacy")])}

DatabaseOptions ==
    {Missing, PyNone, PyStr("postgresql"),
     PyDict([enabled |-> PyBool(TRUE)]),
     PyDict([enabled |-> PyBool(TRUE), type |-> PyStr("postgresql")]),
     PyDict([enabled |-> PyBool(TRUE), name |-> PyStr("shop")]),
     PyDict([enabled |-> PyBool(TRUE), type |-> PyStr("mysql")]),
     PyDict([enabled |-> PyBool(TRUE), type |-> PyStr("mongodb"), name |-> PyStr("shop")]),
     PyDict([enabled |-> PyBool(TRUE), type |-> PyStr("sqlite")])}

HttpsOptions ==
    {Missing, PyNone,
     PyDict([enabled |-> PyBool(TRUE)]),
     PyDict([enabled |-> PyBool(TRUE), redirect_http |-> PyBool(FALSE)]),
     PyDict([enabled |-> PyBool(FALSE)]),
     PyDict([redirect_http |-> PyBool(FALSE)])}

\* the mapping with the sections that are not Missing
Sections(app, resources, environment, database, https) ==
    LET section == [app |-> app, resources |-> resources, environment |-> environment,
                    database |-> database, https |-> https]
    IN  PyDict([key \in {k \in DOMAIN section : section[k] # Missing} |-> section[key]])

YamlFiles ==
    {AbsentFile, UnparseableFile, Loaded(PyNone), Loaded(PyStr("hello")), Loaded(PyInt("0"))}
        \cup {Loaded(Sections(Missing, Missing, e, d, h)) :
                e \in EnvironmentOptions, d \in DatabaseOptions, h \in HttpsOptions}
        \cup {Loaded(Sections(a, r, Missing, Missing, Missing)) :
                a \in AppOptions, r \in {Missing}}
        \cup {Loaded(Sections(a, r, Missing, Missing, Missing)) :
                a \in {Missing}, r \in ResourcesOptions}

\* What a line of .env may be
Entries ==
    {[kind |-> "assign", key |-> <<"A">>, value |-> <<"1">>, pad |-> FALSE],
     [kind |-> "assign", key |-> <<"A">>, value |-> <<"2">>, pad |-> TRUE],
     [kind |-> "assign", key |-> <<"A">>, value |-> <<"x", "=", "y">>, pad |-> FALSE],
     [kind |-> "assign", key |-> <<"D", "B", "_", "H", "O", "S", "T">>, value |-> <<"h">>,
      pad |-> TRUE],
     [kind |-> "comment", key |-> <<"A">>, value |-> <<"9">>, pad |-> FALSE],
     [kind |-> "blank", key |-> <<>>, value |-> <<>>, pad |-> FALSE],
     [kind |-> "bare", key |-> <<"A">>, value |-> <<>>, pad |-> FALSE]}

AbsentEnv == [exists |-> FALSE, entries |-> <<>>]

EnvFiles ==
    {AbsentEnv}
        \cup {[exists |-> TRUE, entries |-> es] : es \in {<<>>} \cup [1..1 -> Entries]
                                                        \cup [1..2 -> Entries]}

\* the directories in which the two files are varied together
Directories ==
    (YamlFiles \X {AbsentEnv})
        \cup ({AbsentFile} \X EnvFiles)
        \cup ({Loaded(Sections(Missing, Missing, e, d, Missing)) :
                 e \in EnvironmentOptions,
                 d \in {Missing, PyDict([enabled |-> PyBool(TRUE)])}} \X EnvFiles)

----------------------------------------------------------------------------
(* Initial state: an empty runtime, nothing being deployed *)

NoDeployment ==
    /\ containers = {}
    /\ images = {}
    /\ pc = [p \in Procs |-> "idle"]
    /\ app_name = [p \in Procs |-> "blog"]
    /\ trigger = [p \in Procs |-> "dashboard"]
    /\ app_exists = [p \in Procs |-> FALSE]
    /\ dockerfile_exists = [p \in Procs |-> FALSE]
    /\ config = [p \in Procs |-> [db_enabled |-> FALSE, db_type |-> "postgresql"]]
    /\ build_result = [p \in Procs |-> Pending]
    /\ run_result = [p \in Procs |-> Pending]
    /\ db_exception = [p \in Procs |-> Pending]
    /\ db_connection_info = [p \in Procs |-> None]
    /\ attempts = [p \in Procs |-> 0]
    /\ ready = [p \in Procs |-> FALSE]
    /\ previous = [p \in Procs |-> {}]
    /\ container_id = [p \in Procs |-> 0]
    /\ last_call = NoCall

\* no configuration object: the pipeline's config is what it would hold
NoConfiguration ==
    /\ yaml_file = AbsentFile
    /\ env_file = AbsentEnv
    /\ self_config = Unset
    /\ returned = [call |-> "", app |-> "", base |-> <<>>, override |-> <<>>, value |-> Unset]
    /\ run_cmd = NoCmd

\* Application names for the certificate manager, cut at their dots: a name is
\* the sequence of its dot-free pieces and its dots.
CertApps == {<<"blog">>, <<"shop">>, <<"my", ".", "app">>, <<"api", ".", "shop">>}

NoResult == [call |-> "", app |-> <<>>, status |-> "pending", value |-> <<>>]

\* ssl_manager.py:17-19: an empty certs directory, no call made yet; the tool
\* and its trust root are not there
NoCertificates ==
    /\ cert_dir = {}
    /\ mkcert_installed = FALSE
    /\ ca_installed = FALSE
    /\ tool_calls = <<>>
    /\ ssl_returned = NoResult
    /\ issued = [app \in CertApps |-> <<>>]

Init == NoDeployment /\ NoConfiguration /\ NoCertificates

----------------------------------------------------------------------------
(* A deployment is triggered: the files of the application directory are    *)
(* what they are at that moment.                                           *)

\* a new request or hook process: nothing is left of the invocation before it
NewRequest(p) ==
    /\ build_result' = [build_result EXCEPT ![p] = Pending]
    /\ run_result' = [run_result EXCEPT ![p] = Pending]
    /\ db_exception' = [db_exception EXCEPT ![p] = Pending]
    /\ db_connection_info' = [db_connection_info EXCEPT ![p] = None]
    /\ attempts' = [attempts EXCEPT ![p] = 0]
    /\ ready' = [ready EXCEPT ![p] = FALSE]
    /\ previous' = [previous EXCEPT ![p] = {}]
    /\ container_id' = [container_id EXCEPT ![p] = 0]

\* a deployment of one of apps, whose configuration is one of configs
Invoke(p, trig, apps, configs) ==
    /\ pc[p] = "idle"
    /\ \E app \in apps, dir \in BOOLEAN, dockerfile \in BOOLEAN, c \in configs :
        /\ app_name' = [app_name EXCEPT ![p] = app]
        /\ app_exists' = [app_exists EXCEPT ![p] = dir]
        /\ dockerfile_exists' = [dockerfile_exists EXCEPT ![p] = dir /\ dockerfile]
        /\ config' = [config EXCEPT ![p] = c]
    /\ trigger' = [trigger EXCEPT ![p] = trig]
    /\ pc' = [pc EXCEPT ![p] = "build"]
    /\ NewRequest(p)
    /\ last_call' = NoCall
    /\ UNCHANGED <<containers, images>>
    /\ UNCHANGED <<cfg_vars, ssl_vars>>

\* dashboard.py:97-104: POST /api/apps/<app_name>/deploy
api_deploy_app(p) == Invoke(p, "dashboard", Apps, Configs)

\* init.py:16-23: the generated post-receive hook
post_receive(p) == Invoke(p, "hook", Apps, Configs)

----------------------------------------------------------------------------
(* builder.build *)

\* the exit code of docker build not looked at
build_failed_never(returncode) == FALSE

\* builder.py:53
build_failed(returncode) == returncode # 0

\* What follows build() in the caller.  dashboard.py:104-117: a BuildError is
\* caught and answered with 500, run() is not called.  init.py:21-22: the hook
\* is a plain shell script, its second command runs whatever the first one did.
after_build(trig, result) ==
    IF trig = "dashboard"
    THEN IF result.status = "returned" THEN "run" ELSE "idle"
    ELSE "run"

\* builder.py:13-35: validation, before the build tool is called
build(p) ==
    /\ pc[p] = "build"
    /\ last_call' = NoCall
    /\ IF ~app_exists[p]
       THEN LET r == Raised("BuildError", <<"Application directory not found">>) IN
            /\ build_result' = [build_result EXCEPT ![p] = r]
            /\ pc' = [pc EXCEPT ![p] = after_build(trigger[p], r)]
       ELSE IF ~dockerfile_exists[p]
       THEN LET r == Raised("BuildError", <<"Dockerfile not found">>) IN
            /\ build_result' = [build_result EXCEPT ![p] = r]
            /\ pc' = [pc EXCEPT ![p] = after_build(trigger[p], r)]
       ELSE /\ pc' = [pc EXCEPT ![p] = "docker_build"]
            /\ UNCHANGED build_result
    /\ UNCHANGED <<containers, images, app_name, trigger, app_exists, dockerfile_exists,
                   config, run_result, db_exception, db_connection_info, attempts,
                   ready, previous, container_id>>
    /\ UNCHANGED <<cfg_vars, ssl_vars>>

\* builder.py:37-60: docker build -t launchbox-<app> and the check of its exit code
docker_build(p) ==
    /\ pc[p] = "docker_build"
    /\ \E returncode \in ExitCodes :
        LET r == IF build_failed(returncode)
                 THEN Raised("BuildError", <<"Docker build failed">>)
                 ELSE Returned
        IN  /\ last_call' = Call("build", image_name(app_name[p]), returncode)
            /\ images' = IF returncode = 0
                         THEN images \cup {image_name(app_name[p])}
                         ELSE images
            /\ build_result' = [build_result EXCEPT ![p] = r]
            /\ pc' = [pc EXCEPT ![p] = after_build(trigger[p], r)]
    /\ UNCHANGED <<containers, app_name, trigger, app_exists, dockerfile_exists,
                   config, run_result, db_exception, db_connection_info, attempts,
                   ready, previous, container_id>>
    /\ UNCHANGED <<cfg_vars, ssl_vars>>

----------------------------------------------------------------------------
(* runner.run and DatabaseManager *)

\* without the "except DeploymentError: raise" clause
run_except_wrap_all(e) ==
    Raised("DeploymentError", <<"Unexpected deployment error">> \o e.msg)

\* without the "except Exception" clause
run_except_passes(e) == e

\* runner.py:130-134: a DeploymentError is re-raised, anything else is wrapped
run_except(e) ==
    IF e.type = "DeploymentError"
    THEN e
    ELSE Raised("DeploymentError", <<"Unexpected deployment error">> \o e.msg)

\* database_manager.py:99-101, 150-152, 200-202
create_except(db_type, e) ==
    Raised("DatabaseError", <<db_label(db_type) \o " setup failed">> \o e.msg)

\* database_manager.py:261-295
get_connection_info(name, db_type) == [DB_TYPE |-> db_type, DB_HOST |-> name]

\* run() ends with exception e raised by the database step
DbFail(p, e) ==
    /\ db_exception' = [db_exception EXCEPT ![p] = e]
    /\ run_result' = [run_result EXCEPT ![p] = run_except(e)]
    /\ pc' = [pc EXCEPT ![p] = "idle"]

\* create_database_for_app returns the connection info, run() goes on
\* (runner.py:29-32)
DbReturn(p, info) ==
    /\ db_connection_info' = [db_connection_info EXCEPT ![p] = info]
    /\ pc' = [pc EXCEPT ![p] = "rm"]

\* the flag not consulted
is_database_enabled_ignored(c) == TRUE

\* config_parser.py:118-120
is_database_enabled(c) == c.db_enabled

\* every type dispatched to a provisioning routine
supported_any(db_type) == TRUE

\* database_manager.py:43-50
supported(db_type) == db_type \in {"postgresql", "mysql", "mongodb"}

\* runner.py:13-29 with database_manager.py:17-50: directory check, configuration,
\* DatabaseManager() and the dispatch of create_database_for_app
run(p) ==
    /\ pc[p] = "run"
    /\ last_call' = NoCall
    /\ previous' = [previous EXCEPT ![p] = Named(containers, app_name[p])]
    /\ IF ~app_exists[p]
       THEN /\ run_result' = [run_result EXCEPT ![p] =
                   run_except(Raised("DeploymentError", <<"Application directory not found">>))]
            /\ pc' = [pc EXCEPT ![p] = "idle"]
            /\ UNCHANGED <<db_exception, db_connection_info>>
       ELSE \E connected \in BOOLEAN :
            IF ~connected
            THEN /\ DbFail(p, Raised("DatabaseError", <<"Docker connection failed">>))
                 /\ UNCHANGED db_connection_info
            ELSE IF ~is_database_enabled(config[p])
            THEN /\ DbReturn(p, None)
                 /\ UNCHANGED <<db_exception, run_result>>
            ELSE IF ~supported(config[p].db_type)
            THEN /\ DbFail(p, Raised("DatabaseError", <<"Unsupported database type">>))
                 /\ UNCHANGED db_connection_info
            ELSE /\ pc' = [pc EXCEPT ![p] = "db_get"]
                 /\ UNCHANGED <<db_exception, run_result, db_connection_info>>
    /\ UNCHANGED <<containers, images, app_name, trigger, app_exists, dockerfile_exists,
                   config, build_result, attempts, ready, container_id>>
    /\ UNCHANGED <<cfg_vars, ssl_vars>>

\* the lookup never finds the container
container_status_not_found(name) == "NotFound"

\* container.status of the container named name, "NotFound" when there is none
\* (database_manager.py:59-60)
container_status(name) ==
    IF Named(containers, name) = {}
    THEN "NotFound"
    ELSE IF \E c \in Named(containers, name) : c.status = "running"
    THEN "running"
    ELSE "exited"

\* database_manager.py:57-68: self.client.containers.get(container_name)
db_get(p) ==
    LET name == container_name(app_name[p], config[p].db_type)
        status == container_status(name)
    IN  /\ pc[p] = "db_get"
        /\ last_call' = Call("get", name, IF status = "NotFound" THEN 1 ELSE 0)
        /\ IF status = "running"
           THEN DbReturn(p, get_connection_info(name, config[p].db_type))
           ELSE /\ pc' = [pc EXCEPT ![p] = IF status = "NotFound" THEN "db_create" ELSE "db_start"]
                /\ UNCHANGED db_connection_info
        /\ UNCHANGED <<containers, images, app_name, trigger, app_exists, dockerfile_exists,
                       config, build_result, run_result, db_exception, attempts, ready,
                       previous, container_id>>
    /\ UNCHANGED <<cfg_vars, ssl_vars>>

\* database_manager.py:63-68: container.start() on the container found stopped
db_start(p) ==
    LET name == container_name(app_name[p], config[p].db_type) IN
    /\ pc[p] = "db_start"
    /\ IF Named(containers, name) = {}
       THEN \* docker.errors.NotFound: pass
            /\ last_call' = Call("start", name, 1)
            /\ pc' = [pc EXCEPT ![p] = "db_create"]
            /\ UNCHANGED <<containers, db_exception, run_result, db_connection_info>>
       ELSE \E rc \in ExitCodes :
            /\ last_call' = Call("start", name, rc)
            /\ IF rc = 0
               THEN /\ containers' = SetStatus(containers, name, "running")
                    /\ DbReturn(p, get_connection_info(name, config[p].db_type))
                    /\ UNCHANGED <<db_exception, run_result>>
               ELSE /\ DbFail(p, create_except(config[p].db_type,
                                               Raised("APIError", <<"start failed">>)))
                    /\ UNCHANGED <<containers, db_connection_info>>
    /\ UNCHANGED <<images, app_name, trigger, app_exists, dockerfile_exists, config,
                   build_result, attempts, ready, previous, container_id>>
    /\ UNCHANGED <<cfg_vars, ssl_vars>>

\* database_manager.py:70-91: self.client.containers.run(..., detach=True).  The
\* runtime creates the container and then starts it: the call can fail before
\* the creation ("failed") or between the two ("created").
db_create(p) ==
    LET name == container_name(app_name[p], config[p].db_type) IN
    /\ pc[p] = "db_create"
    /\ IF Named(containers, name) # {}
       THEN \* the name is in use: the runtime refuses
            /\ last_call' = Call("create", name, 1)
            /\ DbFail(p, create_except(config[p].db_type,
                                       Raised("APIError", <<"name in use">>)))
            /\ UNCHANGED containers
       ELSE \E outcome \in {"started", "created", "failed"} :
            /\ last_call' = Call("create", name, IF outcome = "started" THEN 0 ELSE 1)
            /\ containers' =
                   IF outcome = "failed"
                   THEN containers
                   ELSE containers \cup
                        {NewContainer(name,
                                      IF outcome = "started" THEN "running" ELSE "exited",
                                      "database")}
            /\ IF outcome = "started"
               THEN /\ pc' = [pc EXCEPT ![p] = "db_wait"]
                    /\ UNCHANGED <<db_exception, run_result>>
               ELSE DbFail(p, create_except(config[p].db_type,
                                           Raised("APIError", <<"run failed">>)))
    /\ UNCHANGED <<images, app_name, trigger, app_exists, dockerfile_exists, config,
                   build_result, db_connection_info, attempts, ready, previous,
                   container_id>>
    /\ UNCHANGED <<cfg_vars, ssl_vars>>

\* range(timeout + 1)
loop_exhausted_late(i, t) == i > t

\* database_manager.py:208, 227, 246: for i in range(timeout); i iterations are done
loop_exhausted(i, t) == i >= t

\* a loop whose counter does not advance
same_attempt(i) == i

\* database_manager.py:208, 227, 246: range() hands out the next i
next_attempt(i) == i + 1

\* database_manager.py:213, 232, 251: if result.exit_code == 0
probe_ready(exit_code) == exit_code = 0

\* without the try/except around the probe
probe_exception_propagates == FALSE

\* database_manager.py:216-217, 235-236, 254-255: except Exception: pass
probe_exception_swallowed == TRUE

\* database_manager.py:221, 240, 259
timeout_error(db_type, name, t) ==
    Raised("DatabaseError",
           <<db_label(db_type), name, "failed to become ready within", ToString(t), "seconds">>)

\* database_manager.py:204-259: one iteration of _wait_for_postgres / _wait_for_mysql /
\* _wait_for_mongodb: containers.get(container_name).exec_run(<probe>), then sleep.
\* The probe can answer 0 only in a running container; get() or exec_run() raise
\* when the container is gone or not running.
db_wait(p) ==
    LET name == container_name(app_name[p], config[p].db_type)
        n == next_attempt(attempts[p])
    IN
    /\ pc[p] = "db_wait"
    /\ ~loop_exhausted(attempts[p], timeout)
    /\ \E rc \in ExitCodes, raised \in BOOLEAN :
        /\ raised => rc = 1
        /\ container_status(name) # "running" => raised
        /\ last_call' = Probe(name, rc, raised, n)
        /\ IF ~raised /\ probe_ready(rc)
           THEN \* return from the wait, then the connection info (lines 94-97)
                /\ ready' = [ready EXCEPT ![p] = TRUE]
                /\ attempts' = [attempts EXCEPT ![p] = 0]
                /\ DbReturn(p, get_connection_info(name, config[p].db_type))
                /\ UNCHANGED <<db_exception, run_result>>
           ELSE IF raised /\ ~probe_exception_swallowed
           THEN /\ attempts' = [attempts EXCEPT ![p] = 0]
                /\ DbFail(p, create_except(config[p].db_type,
                                           Raised("APIError", <<"exec failed">>)))
                /\ UNCHANGED <<ready, db_connection_info>>
           ELSE IF loop_exhausted(n, timeout)
           THEN /\ attempts' = [attempts EXCEPT ![p] = 0]
                /\ DbFail(p, create_except(config[p].db_type,
                                           timeout_error(config[p].db_type, name, timeout)))
                /\ UNCHANGED <<ready, db_connection_info>>
           ELSE /\ attempts' = [attempts EXCEPT ![p] = n]
                /\ UNCHANGED <<pc, ready, db_exception, run_result, db_connection_info>>
    /\ UNCHANGED <<containers, images, app_name, trigger, app_exists, dockerfile_exists,
                   config, build_result, previous, container_id>>
    /\ UNCHANGED <<cfg_vars, ssl_vars>>

\* docker rm without -f: a running container is not removed
rm_not_forced(cs, name) == {c \in cs : c.name = name => c.status = "running"}

\* runner.py:40-46: docker rm -f <app_name>; the exit code is not looked at
rm_f(cs, name) == cs \ Named(cs, name)

rm(p) ==
    /\ pc[p] = "rm"
    /\ last_call' = Call("rm", app_name[p],
                         IF Named(containers, app_name[p]) = {} THEN 1 ELSE 0)
    /\ containers' = rm_f(containers, app_name[p])
    /\ pc' = [pc EXCEPT ![p] = "docker_run"]
    /\ UNCHANGED <<images, app_name, trigger, app_exists, dockerfile_exists, config,
                   build_result, run_result, db_exception, db_connection_info,
                   attempts, ready, previous, container_id>>
    /\ UNCHANGED <<cfg_vars, ssl_vars>>

\* the exit code test turned round
run_failed_inverted(returncode) == returncode = 0

\* runner.py:115
run_failed(returncode) == returncode # 0

\* runner.py:107-128: docker run -d --name <app_name> ... launchbox-<app_name>.
\* The runtime starts a container only under a free name and from a local image;
\* a failed call may leave the container it created, not running.
docker_run(p) ==
    LET name == app_name[p]
        possible == Named(containers, name) = {} /\ image_name(name) \in images
    IN
    /\ pc[p] = "docker_run"
    /\ \E returncode \in ExitCodes, created \in BOOLEAN :
        /\ returncode = 0 => possible /\ created
        /\ created => possible
        /\ last_call' = Call("run", name, returncode)
        /\ containers' =
               IF created
               THEN containers \cup
                    {NewContainer(name, IF returncode = 0 THEN "running" ELSE "exited", "app")}
               ELSE containers
        /\ container_id' =
               IF returncode = 0
               THEN [container_id EXCEPT ![p] = FreshId(name)]
               ELSE container_id
        /\ run_result' = [run_result EXCEPT ![p] =
               IF run_failed(returncode)
               THEN run_except(Raised("DeploymentError", <<"Docker run failed">>))
               ELSE Returned]
    /\ pc' = [pc EXCEPT ![p] = "idle"]
    /\ UNCHANGED <<images, app_name, trigger, app_exists, dockerfile_exists, config,
                   build_result, db_exception, db_connection_info, attempts, ready,
                   previous>>
    /\ UNCHANGED <<cfg_vars, ssl_vars>>

----------------------------------------------------------------------------
(* Dashboard operations on a deployed application *)

\* what a dashboard operation on app leaves of the invocation's locals
Operation(p, app) ==
    /\ app_name' = [app_name EXCEPT ![p] = app]
    /\ trigger' = [trigger EXCEPT ![p] = "dashboard"]
    /\ app_exists' = [app_exists EXCEPT ![p] = FALSE]
    /\ dockerfile_exists' = [dockerfile_exists EXCEPT ![p] = FALSE]
    /\ config' = [config EXCEPT ![p] = [db_enabled |-> FALSE, db_type |-> "postgresql"]]
    /\ NewRequest(p)
    /\ UNCHANGED pc
    /\ UNCHANGED <<cfg_vars, ssl_vars>>

\* dashboard.py:119-136: containers.get(app_name).stop(); 404 when there is none
stop_app(p, apps) ==
    /\ pc[p] = "idle"
    /\ \E app \in apps :
        /\ last_call' = Call("stop", app, IF Named(containers, app) = {} THEN 1 ELSE 0)
        /\ containers' = SetStatus(containers, app, "exited")
        /\ Operation(p, app)
    /\ UNCHANGED images

api_stop_app(p) == stop_app(p, Apps)

\* dashboard.py:138-155: containers.get(app_name).start(); 404 when there is none
start_app(p, apps) ==
    /\ pc[p] = "idle"
    /\ \E app \in apps :
        /\ last_call' = Call("start", app, IF Named(containers, app) = {} THEN 1 ELSE 0)
        /\ containers' = SetStatus(containers, app, "running")
        /\ Operation(p, app)
    /\ UNCHANGED images

api_start_app(p) == start_app(p, Apps)

\* dashboard.py:183-200: containers.get(app_name).logs(tail=100); 404 when there is none
api_app_logs(p, apps) ==
    /\ pc[p] = "idle"
    /\ \E app \in apps :
        /\ last_call' = Call("logs", app, IF Named(containers, app) = {} THEN 1 ELSE 0)
        /\ Operation(p, app)
    /\ UNCHANGED <<containers, images>>

\* an operation that answers with value: the status code of a response, or the
\* value a method returns
Result(op, name, value) ==
    [op |-> op, name |-> name, rc |-> 0, raised |-> FALSE, n |-> 0, value |-> value]

\* what a stop() followed by remove() does to the container called name:
\* both done, stop() raised, or remove() raised after the container was stopped
stop_remove(cs, name, outcome) ==
    CASE outcome = "removed" -> cs \ Named(cs, name)
      [] outcome = "stop_raises" -> cs
      [] outcome = "remove_raises" -> SetStatus(cs, name, "exited")

Outcomes == {"removed", "stop_raises", "remove_raises"}

\* dashboard.py:157-181: DELETE /api/apps/<app_name>/remove.  Without a client
\* nothing is removed and the answer is still the success message; a container
\* that is not there is passed over; whatever images.remove does is ignored.
api_remove_app(p, apps) ==
    /\ pc[p] = "idle"
    /\ \E app \in apps, client \in BOOLEAN, outcome \in Outcomes, untagged \in BOOLEAN :
        LET found == client /\ Named(containers, app) # {}
            failed == found /\ outcome # "removed"
        IN  /\ containers' = IF found THEN stop_remove(containers, app, outcome) ELSE containers
            /\ images' = IF client /\ ~failed /\ untagged
                         THEN images \ {image_name(app)}
                         ELSE images
            /\ last_call' = Result("remove", app, IF failed THEN 500 ELSE 200)
            /\ Operation(p, app)

\* database_manager.py:303
DbKinds == {"postgres", "mysql", "mongodb"}

\* database_manager.py:304
sidecar_name(app, kind) == app \o "_" \o kind

\* removed set as soon as a container is found
removed_when_found(present, gone) == present # {}

\* database_manager.py:300, 310, 316: removed = False, then True after each
\* stop() and remove() that went through
removed(present, gone) == gone # {}

\* the loop left at the first stop() or remove() that raises
attempted_until_failure(present, outcome) ==
    LET position == [postgres |-> 1, mysql |-> 2, mongodb |-> 3] IN
    {k \in present :
        \A j \in present : position[j] < position[k] => outcome[j] = "removed"}

\* database_manager.py:303-314: the kinds whose container the loop gets to;
\* "continue" and the logged warning both go on with the next kind
attempted(present, outcome) == present

\* what remove_database_for_app(app) returned, with the kinds it logged the
\* warning "Failed to remove" for (database_manager.py:313-316)
Removal(app, value, warnings) ==
    [op |-> "remove_database", name |-> app, rc |-> 0, raised |-> FALSE, n |-> 0,
     value |-> value, warnings |-> warnings]

\* database_manager.py:297-320: DatabaseManager.remove_database_for_app
remove_database_for_app(p, apps) ==
    /\ pc[p] = "idle"
    /\ \E app \in apps, outcome \in [DbKinds -> Outcomes] :
        LET present == {k \in DbKinds : Named(containers, sidecar_name(app, k)) # {}}
            tried == attempted(present, outcome)
            gone == {k \in tried : outcome[k] = "removed"}
            stopped == {k \in tried : outcome[k] = "remove_raises"}
        IN  /\ containers' =
                  {IF \E k \in stopped : c.name = sidecar_name(app, k)
                   THEN [c EXCEPT !.status = "exited"]
                   ELSE c :
                      c \in {d \in containers :
                               ~\E k \in gone : d.name = sidecar_name(app, k)}}
            /\ last_call' = Removal(app, removed(present, gone), tried \ gone)
            /\ Operation(p, app)
    /\ UNCHANGED images

----------------------------------------------------------------------------
(* One invocation at a time (the documented scheduling model: each         *)
(* deployment runs to completion or failure before returning).  Invocation *)
(* 1 runs every request; invocation 2 stays idle under this specification. *)

Step(p) ==
    \/ api_deploy_app(p)
    \/ post_receive(p)
    \/ build(p)
    \/ docker_build(p)
    \/ run(p)
    \/ db_get(p)
    \/ db_start(p)
    \/ db_create(p)
    \/ db_wait(p)
    \/ rm(p)
    \/ docker_run(p)
    \/ api_stop_app(p)
    \/ api_start_app(p)

Next == Step(1)

Spec == Init /\ [][Next]_vars

\* The steps inside build() and run(): every one is a piece of straight-line code
\* or one call of the container runtime or the build tool.
Progress(p) ==
    \/ build(p)
    \/ docker_build(p)
    \/ run(p)
    \/ db_get(p)
    \/ db_start(p)
    \/ db_create(p)
    \/ db_wait(p)
    \/ rm(p)
    \/ docker_run(p)

\* Spec, with every call of the container runtime returning: a deployment that
\* can take its next step takes it.
SpecLive == Init /\ [][Next]_vars /\ WF_vars(Progress(1))

----------------------------------------------------------------------------
(* Deployments of two applications, one after the other.  Nothing restricts  *)
(* the name of an application (init.py:5-6, dashboard.py:97-98): the second  *)
(* one is named as the first one's postgres sidecar.                         *)

TwoApps == {"blog", "blog_postgres"}
PostgresConfigs == [db_enabled : BOOLEAN, db_type : {"postgresql"}]

\* dashboard.py:97-104 for one of the two applications
api_deploy_app_of_two(p) == Invoke(p, "dashboard", TwoApps, PostgresConfigs)

NextTwoApps ==
    \/ api_deploy_app_of_two(1)
    \/ build(1)
    \/ docker_build(1)
    \/ run(1)
    \/ db_get(1)
    \/ db_start(1)
    \/ db_create(1)
    \/ db_wait(1)
    \/ rm(1)
    \/ docker_run(1)

SpecTwoApps == Init /\ [][NextTwoApps]_vars

----------------------------------------------------------------------------
(* Two deployments of one application at the same time: two requests served  *)
(* by the dashboard's threads, their steps interleaved in any order.  The    *)
(* application has no database.                                              *)

NoDatabaseConfigs == [db_enabled : {FALSE}, db_type : {"postgresql"}]

\* dashboard.py:97-104 for an application without database
api_deploy_app_no_database(p) == Invoke(p, "dashboard", Apps, NoDatabaseConfigs)

NextRace ==
    \E p \in Procs :
        \/ api_deploy_app_no_database(p)
        \/ build(p)
        \/ docker_build(p)
        \/ run(p)
        \/ rm(p)
        \/ docker_run(p)

SpecRace == Init /\ [][NextRace]_vars

----------------------------------------------------------------------------
(* Every operation on the two applications, one after the other. *)

NextOps ==
    \/ NextTwoApps
    \/ stop_app(1, TwoApps)
    \/ start_app(1, TwoApps)
    \/ api_app_logs(1, TwoApps)
    \/ api_remove_app(1, TwoApps)
    \/ remove_database_for_app(1, TwoApps)

SpecOps == Init /\ [][NextOps]_vars

----------------------------------------------------------------------------
(* One application deployed with a database of one type, then of another,   *)
(* and the removal of its databases.                                        *)

TwoKindConfigs == [db_enabled : {TRUE}, db_type : {"postgresql", "mysql"}]

NextRemove ==
    \/ Invoke(1, "dashboard", Apps, TwoKindConfigs)
    \/ build(1)
    \/ docker_build(1)
    \/ run(1)
    \/ db_get(1)
    \/ db_start(1)
    \/ db_create(1)
    \/ db_wait(1)
    \/ rm(1)
    \/ docker_run(1)
    \/ remove_database_for_app(1, Apps)

SpecRemove == Init /\ [][NextRemove]_vars

----------------------------------------------------------------------------
(* The configuration resolver: a LaunchboxConfig object is built from the     *)
(* files of a directory, its methods are called, run() assembles its command. *)

pipeline_vars == <<containers, images, pc, app_name, trigger, app_exists, dockerfile_exists,
                   config, build_result, run_result, db_exception, db_connection_info,
                   attempts, ready, previous, container_id, last_call>>

Accessors == {"get_port", "get_dockerfile", "get_build_context", "get_environment_vars",
              "get_resource_limits", "get_health_check", "is_database_enabled",
              "get_database_config", "is_https_enabled", "should_redirect_http"}

\* config_parser.py:71-132: method name called on the object
accessor(name, c, env) ==
    CASE name = "get_port" -> get_port(c)
      [] name = "get_dockerfile" -> get_dockerfile(c)
      [] name = "get_build_context" -> get_build_context(c)
      [] name = "get_environment_vars" -> get_environment_vars(c, env)
      [] name = "get_resource_limits" -> get_resource_limits(c)
      [] name = "get_health_check" -> get_health_check(c)
      [] name = "is_database_enabled" -> config_is_database_enabled(c)
      [] name = "get_database_config" -> get_database_config(c)
      [] name = "is_https_enabled" -> is_https_enabled(c)
      [] name = "should_redirect_http" -> should_redirect_http(c)

NoReturn == [call |-> "", app |-> "", base |-> <<>>, override |-> <<>>, value |-> Unset]
Return(call, app, value) ==
    [call |-> call, app |-> app, base |-> <<>>, override |-> <<>>, value |-> value]

\* the directories of the applications, with no object built from them yet
InitConfig ==
    /\ NoDeployment
    /\ \E directory \in Directories :
        /\ yaml_file = directory[1]
        /\ env_file = directory[2]
    /\ self_config = Unset
    /\ returned = NoReturn
    /\ run_cmd = NoCmd
    /\ NoCertificates

\* config_parser.py:11-14
LaunchboxConfig ==
    /\ self_config = Unset
    /\ self_config' = _load_config(yaml_file)
    /\ UNCHANGED <<yaml_file, env_file, returned, run_cmd>>
    /\ UNCHANGED <<pipeline_vars, ssl_vars>>

\* The object has been built and nothing was called on it.  No method changes
\* the object or the files, so one call on a fresh object shows all a method
\* can return.
Fresh == self_config # Unset /\ returned = NoReturn /\ run_cmd = NoCmd

\* a method of the object is called
call_accessor ==
    /\ Fresh
    /\ \E name \in Accessors :
        returned' = Return(name, "", accessor(name, self_config, env_file))
    /\ run_cmd' = NoCmd
    /\ UNCHANGED <<yaml_file, env_file, self_config>>
    /\ UNCHANGED <<pipeline_vars, ssl_vars>>

\* _deep_merge is called on two of the mappings at hand: the default, the
\* user's, the merged one, the empty one
call_deep_merge ==
    /\ Fresh
    /\ LET mappings == {default_config.m, self_config.m, <<>>}
                           \cup (IF yaml_file.value.t = "dict" THEN {yaml_file.value.m} ELSE {})
       IN  \E base \in mappings, override \in mappings :
              returned' = [call |-> "_deep_merge", app |-> "", base |-> base,
                           override |-> override, value |-> PyDict(_deep_merge(base, override))]
    /\ run_cmd' = NoCmd
    /\ UNCHANGED <<yaml_file, env_file, self_config>>
    /\ UNCHANGED <<pipeline_vars, ssl_vars>>

\* database_manager.py:28-50: the manager builds its own object from the files
call_create_database_for_app ==
    /\ Fresh
    /\ \E app \in Apps :
        returned' = Return("create_database_for_app", app,
                           create_database_for_app(app, _load_config(yaml_file)))
    /\ run_cmd' = NoCmd
    /\ UNCHANGED <<yaml_file, env_file, self_config>>
    /\ UNCHANGED <<pipeline_vars, ssl_vars>>

\* runner.py:21-103
assemble(apps) ==
    /\ Fresh
    /\ \E app \in apps :
        /\ run_cmd' = run_command(app, yaml_file, env_file)
        /\ returned' = Return("run", app, Unset)
    /\ UNCHANGED <<yaml_file, env_file, self_config>>
    /\ UNCHANGED <<pipeline_vars, ssl_vars>>

assemble_run_cmd == assemble(Apps)

NextConfig ==
    \/ LaunchboxConfig
    \/ call_accessor
    \/ call_deep_merge
    \/ call_create_database_for_app
    \/ assemble_run_cmd

SpecConfig == InitConfig /\ [][NextConfig]_vars

\* The commands of two applications.  Nothing restricts the name of an
\* application (init.py:5-6, dashboard.py:97-98): the second one is named as
\* the first one's secure router.
LabelApps == {"blog", "blog-secure"}

NextLabels ==
    \/ LaunchboxConfig
    \/ assemble(LabelApps)

SpecLabels == InitConfig /\ [][NextLabels]_vars

----------------------------------------------------------------------------
(* SSLManager: certificates made with the external tool mkcert.  A call of   *)
(* the tool is one entry of tool_calls; the tool writes the two files of a   *)
(* certificate when it exits with 0 and nothing otherwise.                   *)

\* str.replace(old, new) on a name cut at its dots
replace(s, old, new) == [i \in DOMAIN s |-> IF s[i] = old THEN new ELSE s[i]]

\* ssl_manager.py:116
domains(app) == <<app \o <<".", "localhost">>, <<"localhost">>>>

\* ssl_manager.py:92-93, 118-119: the paths of the two files of cert_name
cert_paths(cert_name) ==
    <<"certs/" \o text(cert_name) \o ".pem", "certs/" \o text(cert_name) \o "-key.pem">>

\* ssl_manager.py:117: the name get_certificate_for_app looks for
lookup_name(app) == app \o <<"_localhost">>

\* ssl_manager.py:90-91: the name create_certificate writes
created_name(ds) == replace(ds[1], ".", "_")

SslReturn(call, app, value) == [call |-> call, app |-> app, status |-> "returned", value |-> value]
SslRaise(call, app, msg) == [call |-> call, app |-> app, status |-> "raised", value |-> <<msg>>]

\* ssl_manager.py:62-81: setup_ca, for the call named call.  The tool is
\* installed when it is missing (install_mkcert, lines 25-60), then
\* mkcert -install is run.  Gives the tool calls made and whether it raised.
setup_ca(installs, ca_ok) ==
    IF ~mkcert_installed /\ ~installs
    THEN [calls |-> <<>>, raised |-> TRUE, mkcert |-> FALSE, ca |-> ca_installed,
          msg |-> "mkcert is not installed and could not be installed automatically"]
    ELSE IF ~ca_ok
    THEN [calls |-> <<"mkcert -install">>, raised |-> TRUE, mkcert |-> TRUE, ca |-> ca_installed,
          msg |-> "mkcert CA setup failed"]
    ELSE [calls |-> <<"mkcert -install">>, raised |-> FALSE, mkcert |-> TRUE, ca |-> TRUE,
          msg |-> ""]

\* ssl_manager.py:83-112: create_certificate(domains), called for app by call
create_certificate(call, app, ds) ==
    \E installs \in BOOLEAN, ca_ok \in BOOLEAN, gen_ok \in BOOLEAN :
        LET ca == IF ~mkcert_installed
                  THEN setup_ca(installs, ca_ok)
                  ELSE [calls |-> <<>>, raised |-> FALSE, mkcert |-> TRUE,
                        ca |-> ca_installed, msg |-> ""]
            paths == cert_paths(created_name(ds))
        IN  /\ mkcert_installed' = ca.mkcert
            /\ ca_installed' = ca.ca
            /\ IF ca.raised
               THEN /\ tool_calls' = ca.calls
                    /\ ssl_returned' = SslRaise(call, app, ca.msg)
                    /\ UNCHANGED <<cert_dir, issued>>
               ELSE /\ tool_calls' = ca.calls \o <<"mkcert -cert-file">>
                    /\ IF gen_ok
                       THEN /\ cert_dir' = cert_dir \cup {paths[1], paths[2]}
                            /\ ssl_returned' = SslReturn(call, app, paths)
                            /\ issued' = IF call = "get_certificate_for_app" /\ issued[app] = <<>>
                                         THEN [issued EXCEPT ![app] = paths]
                                         ELSE issued
                       ELSE /\ ssl_returned' = SslRaise(call, app, "Certificate creation failed")
                            /\ UNCHANGED <<cert_dir, issued>>

\* ssl_manager.py:114-127
get_certificate_for_app ==
    /\ \E app \in CertApps :
        LET paths == cert_paths(lookup_name(app)) IN
        IF paths[1] \in cert_dir /\ paths[2] \in cert_dir
        THEN /\ ssl_returned' = SslReturn("get_certificate_for_app", app, paths)
             /\ tool_calls' = <<>>
             /\ issued' = IF issued[app] = <<>> THEN [issued EXCEPT ![app] = paths] ELSE issued
             /\ UNCHANGED <<cert_dir, mkcert_installed, ca_installed>>
        ELSE create_certificate("get_certificate_for_app", app, domains(app))
    /\ UNCHANGED <<pipeline_vars, cfg_vars>>

\* ssl_manager.py:154-166: setup_https_support(): setup_ca() and the rewrite of
\* traefik/dynamic.yml, which lists the files of cert_dir and changes none
setup_https_support ==
    /\ \E installs \in BOOLEAN, ca_ok \in BOOLEAN :
        LET ca == setup_ca(installs, ca_ok) IN
        /\ mkcert_installed' = (mkcert_installed \/ ca.mkcert)
        /\ ca_installed' = ca.ca
        /\ tool_calls' = ca.calls
        /\ ssl_returned' = IF ca.raised
                           THEN SslRaise("setup_https_support", <<>>, ca.msg)
                           ELSE SslReturn("setup_https_support", <<>>, <<>>)
    /\ UNCHANGED <<cert_dir, issued>>
    /\ UNCHANGED <<pipeline_vars, cfg_vars>>

NextSsl ==
    \/ get_certificate_for_app
    \/ setup_https_support

\* ssl_manager.py:21-23, 17-19: the tool may be on the PATH before the first
\* call, with or without its root in the trust store; certs/ starts empty
InitSsl ==
    /\ NoDeployment
    /\ NoConfiguration
    /\ cert_dir = {}
    /\ mkcert_installed \in BOOLEAN
    /\ ca_installed \in BOOLEAN
    /\ ca_installed => mkcert_installed
    /\ tool_calls = <<>>
    /\ ssl_returned = NoResult
    /\ issued = [app \in CertApps |-> <<>>]

SpecSsl == InitSsl /\ [][NextSsl]_vars

----------------------------------------------------------------------------
(* Claims *)

Ids(cs) == {c.id : c \in cs}

\* C1: the step in which run() returns True leaves exactly one container named
\* app_name, running, and it is the one this docker run created (its id is the
\* one run() read, and no container that was there when run() was entered has
\* it); the removal step goes on to docker run whether or not there was a
\* container to remove.
C1_RedeployReplaces ==
    [][\A p \in Procs :
        /\ (pc[p] = "docker_run" /\ run_result'[p].status = "returned") =>
              /\ Cardinality(Named(containers', app_name[p])) = 1
              /\ \A c \in Named(containers', app_name[p]) :
                    /\ c.id = container_id'[p]
                    /\ c.status = "running"
                    /\ c.id \notin Ids(previous[p])
                    /\ c \notin containers
        /\ (pc[p] = "rm" /\ pc'[p] # "rm") =>
              /\ pc'[p] = "docker_run"
              /\ run_result'[p] = Pending
              /\ Named(containers', app_name[p]) = {}
      ]_vars

\* a deployment onto a running container has succeeded
C1_Witness ==
    /\ pc[1] = "idle"
    /\ run_result[1].status = "returned"
    /\ \E c \in previous[1] : c.status = "running"
    /\ Cardinality(Named(containers, app_name[1])) = 1

C3_BuildFailureAborts ==
    \A p \in Procs :
        build_result[p].status = "raised" =>
            /\ last_call.op # "run"
            /\ ~(last_call.op = "rm" /\ last_call.rc = 0)

\* C4: with no application directory, build() raises BuildError and run()
\* raises DeploymentError, both "directory not found", and no step of the
\* deployment calls the runtime or changes a container or an image.
DirectoryNotFound(result, type) ==
    result = Raised(type, <<"Application directory not found">>)

C4_MissingDirectory ==
    [][\A p \in Procs :
        (pc[p] # "idle" /\ ~app_exists[p]) =>
            /\ last_call' = NoCall
            /\ containers' = containers
            /\ images' = images
            /\ pc'[p] \in {"run", "idle"}
            /\ pc[p] = "build" => DirectoryNotFound(build_result'[p], "BuildError")
            /\ pc[p] = "run" => DirectoryNotFound(run_result'[p], "DeploymentError")
      ]_vars

\* the hook has run the builder and the runner on a missing directory
C4_Witness ==
    /\ pc[1] = "idle"
    /\ ~app_exists[1]
    /\ DirectoryNotFound(build_result[1], "BuildError")
    /\ DirectoryNotFound(run_result[1], "DeploymentError")
    /\ last_call = NoCall

\* C5: connection info is returned to run() only after a readiness probe of
\* this invocation returned exit code 0.
C5_ReadyBeforeReturn ==
    \A p \in Procs : db_connection_info[p] # None => ready[p]

TimeoutMessage(p) ==
    LET name == container_name(app_name[p], config[p].db_type)
        label == db_label(config[p].db_type)
    IN  <<label \o " setup failed", label, name,
          "failed to become ready within", ToString(timeout), "seconds">>

\* C6: the readiness wait is left without a ready probe only by the probe
\* numbered timeout, which is the timeout-th probe issued (probes are numbered
\* consecutively from 1), and then with a DatabaseError naming the container
\* and the timeout; no probe is issued after timeout probes.
C6_TimeoutAfterExactlyTimeoutProbes ==
    [][\A p \in Procs :
        pc[p] = "db_wait" =>
            /\ attempts[p] < timeout
            /\ last_call'.op = "exec"
            /\ last_call'.n = attempts[p] + 1
            /\ (pc'[p] = "db_wait") => attempts'[p] = attempts[p] + 1
            /\ (pc'[p] # "db_wait" /\ ~ready'[p]) =>
                  /\ last_call'.n = timeout
                  /\ db_exception'[p].type = "DatabaseError"
                  /\ db_exception'[p].msg = TimeoutMessage(p)
                  /\ pc'[p] = "idle"
      ]_vars

\* the wait has timed out
C6_Witness ==
    /\ pc[1] = "idle"
    /\ db_exception[1].type = "DatabaseError"
    /\ db_exception[1].msg = TimeoutMessage(1)
    /\ last_call.op = "exec"
    /\ last_call.n = timeout
    /\ ~ready[1]

\* C7: a probe is issued only while no probe of this wait has returned 0; the
\* probe that returns 0 ends the wait with success, so the k-th probe being
\* the first to succeed ends it after k probes; a probe that returns non-zero
\* or raises, when it is not the last one, leaves the wait polling with one
\* more attempt counted.
C7_FirstSuccessEndsWait ==
    [][\A p \in Procs :
        pc[p] = "db_wait" =>
            /\ ~ready[p]
            /\ last_call'.op = "exec"
            /\ last_call'.n = attempts[p] + 1
            /\ (last_call'.rc = 0 /\ ~last_call'.raised) =>
                  /\ ready'[p]
                  /\ pc'[p] = "rm"
                  /\ db_connection_info'[p] # None
                  /\ run_result'[p] = Pending
            /\ ((last_call'.rc # 0 \/ last_call'.raised) /\ last_call'.n < timeout) =>
                  /\ pc'[p] = "db_wait"
                  /\ attempts'[p] = attempts[p] + 1
                  /\ ~ready'[p]
                  /\ run_result'[p] = Pending
      ]_vars

\* the third probe was the first to return 0, after one that raised
C7_Witness ==
    /\ pc[1] = "rm"
    /\ ready[1]
    /\ last_call = Probe(container_name(app_name[1], config[1].db_type), 0, FALSE, 3)
    /\ db_connection_info[1] # None

Sidecars(cs) == {c \in cs : c.service = "database"}

\* C8: no step of a deployment whose configuration has database.enabled = false
\* looks up, creates or starts a sidecar, and the sidecars are after each step
\* what they were before it.
C8_DisabledCreatesNoSidecar ==
    [][\A p \in Procs :
        (pc[p] # "idle" /\ ~config[p].db_enabled) =>
            /\ Sidecars(containers') = Sidecars(containers)
            /\ last_call'.op \notin {"get", "create", "start", "exec"}
            /\ pc'[p] \notin {"db_get", "db_start", "db_create", "db_wait"}
      ]_vars

\* a deployment with the database disabled has succeeded next to a stopped sidecar
C8_Witness ==
    /\ pc[1] = "idle"
    /\ ~config[1].db_enabled
    /\ run_result[1].status = "returned"
    /\ \E c \in Sidecars(containers) : c.status = "exited"

SidecarNames == {container_name(app, t) : app \in Apps, t \in {"postgresql", "mysql", "mongodb"}}

C10_DatabaseErrorUnchanged ==
    \A p \in Procs :
        (/\ db_exception[p].type = "DatabaseError"
         /\ db_exception[p].msg # <<"Docker connection failed">>)
            => run_result[p] = db_exception[p]

\* C11: run() of an application whose configuration has database.enabled = true
\* and a type other than postgresql, mysql or mongodb ends in that step with a
\* DatabaseError raised by the provisioning: no runtime call is made, the
\* containers are what they were and no later step of the deployment follows.
C11_UnsupportedTypeFails ==
    [][\A p \in Procs :
        (/\ pc[p] = "run"
         /\ app_exists[p]
         /\ config[p].db_enabled
         /\ config[p].db_type \notin {"postgresql", "mysql", "mongodb"}) =>
            /\ db_exception'[p].type = "DatabaseError"
            /\ run_result'[p].status = "raised"
            /\ last_call' = NoCall
            /\ containers' = containers
            /\ pc'[p] = "idle"
      ]_vars

\* a deployment of an application with an sqlite database has failed with the
\* unsupported-type error while the application's earlier container runs
C11_Witness ==
    /\ pc[1] = "idle"
    /\ config[1].db_enabled
    /\ config[1].db_type = "sqlite"
    /\ db_exception[1] = Raised("DatabaseError", <<"Unsupported database type">>)
    /\ \E c \in Named(containers, app_name[1]) : c.status = "running"

----------------------------------------------------------------------------
(* Claims about the configuration resolver, under SpecConfig *)

\* the user's file is a mapping whose section is a mapping
UserSection(section) ==
    IF /\ yaml_file.exists
       /\ yaml_file.parses
       /\ yaml_file.value.t = "dict"
       /\ section \in DOMAIN yaml_file.value.m
       /\ yaml_file.value.m[section].t = "dict"
    THEN yaml_file.value.m[section].m
    ELSE <<>>

\* the user's value of key in section, Missing when the file does not set it
UserValue(section, key) ==
    IF key \in DOMAIN UserSection(section) THEN UserSection(section)[key] ELSE Missing

\* the database is enabled by the user's file, whose type is kind or left out
UserEnables(kind) ==
    /\ UserValue("database", "enabled") = PyBool(TRUE)
    /\ UserValue("database", "type") \in {Missing, PyStr(kind)}

\* the -e options of the assembled command
Injected == {run_cmd.args[i] : i \in {j \in DOMAIN run_cmd.args : run_cmd.args[j].flag = "-e"}}

\* C12: when the user's file enables a postgresql database and sets no
\* database.name, create_database_for_app returns DB_NAME = <app>_db and
\* DATABASE_URL = postgresql://launchbox:launchbox123@<app>_postgres:5432/<app>_db,
\* and these are what run() injects.
C12_DefaultDatabaseName ==
    (UserEnables("postgresql") /\ UserValue("database", "name") = Missing) =>
        /\ returned.call = "create_database_for_app" =>
              /\ returned.value.m["DB_NAME"] = PyStr(returned.app \o "_db")
              /\ returned.value.m["DATABASE_URL"] =
                    PyStr("postgresql://launchbox:launchbox123@" \o returned.app
                              \o "_postgres:5432/" \o returned.app \o "_db")
        /\ run_cmd.status = "assembled" =>
              /\ Arg("-e", "DB_NAME", returned.app \o "_db") \in Injected
              /\ Arg("-e", "DATABASE_URL",
                     "postgresql://launchbox:launchbox123@" \o returned.app
                         \o "_postgres:5432/" \o returned.app \o "_db") \in Injected

\* the environment get_environment_vars resolves from the two files
UserEnvironment == get_environment_vars(_load_config(yaml_file), env_file).m

\* the connection variables of the sidecar of application app, none without one
SidecarVariables(app) ==
    LET info == create_database_for_app(app, _load_config(yaml_file)) IN
    IF info.t = "dict" THEN info.m ELSE <<>>

\* the positions of the -e options of the assembled command that set key
Injections(key) ==
    {i \in DOMAIN run_cmd.args : run_cmd.args[i].flag = "-e" /\ run_cmd.args[i].key = key}

\* C13: in an assembled command every key of the user's environment or of the
\* sidecar's variables is set by exactly one -e option, to the sidecar's value
\* when the sidecar has the key and to the user's value otherwise, and no
\* other key is set.
C13_SidecarOverridesUser ==
    run_cmd.status = "assembled" =>
        LET user == UserEnvironment
            sidecar == SidecarVariables(returned.app)
        IN  /\ \A key \in DOMAIN user \cup DOMAIN sidecar :
                  /\ Cardinality(Injections(key)) = 1
                  /\ \A i \in Injections(key) :
                        run_cmd.args[i].value =
                            IF key \in DOMAIN sidecar THEN str(sidecar[key]) ELSE str(user[key])
            /\ \A arg \in Injected : arg.key \in DOMAIN user \cup DOMAIN sidecar

\* a command has been assembled for a directory whose environment block and
\* .env both set DB_HOST and whose file enables the database: DB_HOST is the
\* sidecar's name and the user's key A is kept
C13_Witness ==
    /\ run_cmd.status = "assembled"
    /\ UserValue("environment", "DB_HOST") = PyStr("legacy")
    /\ UserEnvironment["DB_HOST"] = PyStr("h")
    /\ Arg("-e", "DB_HOST", "blog_postgres") \in Injected
    /\ Arg("-e", "A", "block") \in Injected
    /\ Cardinality(Injected) = 8

\* the lines of .env that assign a value to key
Assignments(key) ==
    {i \in DOMAIN env_file.entries :
        env_file.entries[i].kind = "assign" /\ text(env_file.entries[i].key) = key}

\* the value the last of them assigns
EnvValue(key) ==
    LET last == CHOOSE i \in Assignments(key) : \A j \in Assignments(key) : j <= i IN
    PyStr(text(env_file.entries[last].value))

\* the keys either file can define
EnvironmentKeys ==
    DOMAIN UserSection("environment") \cup {text(entry.key) : entry \in Entries}

\* C14: get_environment_vars returns, for every key, the value the .env file
\* assigns to it when it assigns one (the last one when it assigns several),
\* otherwise the value of the environment block when the block has the key;
\* it returns no other key.
C14_EnvFileOverridesBlock ==
    (returned.call = "get_environment_vars" /\ returned.value.t = "dict") =>
        LET resolved == returned.value.m IN
        /\ DOMAIN resolved \subseteq EnvironmentKeys
        /\ \A key \in EnvironmentKeys :
              IF env_file.exists /\ Assignments(key) # {}
              THEN key \in DOMAIN resolved /\ resolved[key] = EnvValue(key)
              ELSE IF UserValue("environment", key) # Missing
              THEN key \in DOMAIN resolved /\ resolved[key] = UserValue("environment", key)
              ELSE key \notin DOMAIN resolved

\* the block sets A and DB_HOST, .env assigns x=y to A under a comment line
C14_Witness ==
    /\ returned.call = "get_environment_vars"
    /\ UserValue("environment", "A") = PyStr("block")
    /\ Len(env_file.entries) = 2
    /\ env_file.entries[1].kind = "comment"
    /\ returned.value = PyDict([A |-> PyStr("x=y"), DB_HOST |-> PyStr("legacy")])

\* C15: whatever launchbox.yaml holds, building the object yields a
\* configuration, no accessor raises, and run() does not fail on the
\* configuration while it assembles its command (an unsupported database type
\* apart).
C15_ConfigurationNeverFails ==
    /\ self_config # Unset => self_config.t = "dict"
    /\ returned.call \in Accessors => returned.value.t # "raise"
    /\ run_cmd.status = "raised" => run_cmd.error = "DatabaseError"

\* C16: without launchbox.yaml the object holds port 3000, dockerfile
\* "Dockerfile", context ".", an empty environment block, no memory and no cpu
\* limit, no health check, a disabled postgresql database of version "13"
\* without name, https disabled with redirect_http true; and its accessors
\* return these (the environment being empty when there is no .env either).
C16_AbsentFileGivesDefault ==
    (~yaml_file.exists /\ self_config # Unset) =>
        /\ self_config =
              PyDict([app |-> PyDict([port |-> PyInt("3000"),
                                      health_check |-> PyNone,
                                      build |-> PyDict([dockerfile |-> PyStr("Dockerfile"),
                                                        context |-> PyStr(".")])]),
                      resources |-> PyDict([memory |-> PyNone, cpu |-> PyNone]),
                      environment |-> PyDict(<<>>),
                      database |-> PyDict([enabled |-> PyBool(FALSE),
                                           type |-> PyStr("postgresql"),
                                           version |-> PyStr("13"),
                                           name |-> PyNone]),
                      https |-> PyDict([enabled |-> PyBool(FALSE),
                                        redirect_http |-> PyBool(TRUE)])])
        /\ returned.call = "get_port" => returned.value = PyInt("3000")
        /\ returned.call = "get_dockerfile" => returned.value = PyStr("Dockerfile")
        /\ returned.call = "get_build_context" => returned.value = PyStr(".")
        /\ (returned.call = "get_environment_vars" /\ ~env_file.exists) =>
              returned.value = PyDict(<<>>)
        /\ returned.call = "get_resource_limits" => returned.value = PyDict(<<>>)
        /\ returned.call = "get_health_check" => returned.value = PyNone
        /\ returned.call = "is_database_enabled" => returned.value = PyBool(FALSE)
        /\ returned.call = "is_https_enabled" => returned.value = PyBool(FALSE)
        /\ returned.call = "should_redirect_http" => returned.value = PyBool(TRUE)

\* the database section of an object built without launchbox.yaml was read
C16_Witness ==
    /\ ~yaml_file.exists
    /\ returned.call = "get_database_config"
    /\ returned.value = PyDict([enabled |-> PyBool(FALSE), type |-> PyStr("postgresql"),
                                version |-> PyStr("13"), name |-> PyNone])

\* C17: _deep_merge(c, c) is c for every mapping c, and _deep_merge of the
\* default with the empty mapping is the default.
C17_MergeIdempotent ==
    returned.call = "_deep_merge" =>
        /\ returned.base = returned.override => returned.value = PyDict(returned.base)
        /\ (returned.base = default_config.m /\ returned.override = <<>>) =>
              returned.value = default_config

\* a configuration that differs from the default in a nested section was
\* merged with itself
C17_Witness ==
    /\ returned.call = "_deep_merge"
    /\ returned.base = self_config.m
    /\ returned.override = self_config.m
    /\ self_config.m["database"] =
          PyDict([enabled |-> PyBool(TRUE), type |-> PyStr("postgresql"),
                  version |-> PyStr("13"), name |-> PyStr("shop")])
    /\ returned.value = self_config

\* the labels of the assembled command
Labels ==
    {run_cmd.args[i] : i \in {j \in DOMAIN run_cmd.args : run_cmd.args[j].flag = "--label"}}

\* the labels of the router <app>-secure for host <app>.localhost
SecureRouter(app) ==
    {Arg("--label", "traefik.http.routers." \o app \o "-secure.rule",
         "Host(" \o app \o ".localhost)"),
     Arg("--label", "traefik.http.routers." \o app \o "-secure.tls", "true"),
     Arg("--label", "traefik.http.routers." \o app \o "-secure.entrypoints", "websecure")}

\* the labels of the middleware that redirects http to https
RedirectMiddleware(app) ==
    {Arg("--label", "traefik.http.routers." \o app \o ".middlewares", app \o "-redirect"),
     Arg("--label", "traefik.http.middlewares." \o app \o "-redirect.redirectscheme.scheme",
         "https")}

\* the three labels every command has
BaseLabels(app) ==
    {arg \in Labels : arg.key \in {"traefik.enable",
                                   "traefik.http.routers." \o app \o ".rule",
                                   "traefik.http.services." \o app
                                       \o ".loadbalancer.server.port"}}

\* C18: an assembled command carries the labels of the router <app>-secure if
\* and only if the file sets https.enabled to true, the labels of the redirect
\* middleware if and only if moreover redirect_http is not set to false, and
\* no other label besides the three of every command.
C18_TlsLabels ==
    run_cmd.status = "assembled" =>
        LET app == returned.app
            enabled == UserValue("https", "enabled") = PyBool(TRUE)
            redirect == UserValue("https", "redirect_http") # PyBool(FALSE)
        IN  Labels = BaseLabels(app)
                        \cup (IF enabled THEN SecureRouter(app) ELSE {})
                        \cup (IF enabled /\ redirect THEN RedirectMiddleware(app) ELSE {})

\* a command was assembled for a file that enables https and leaves
\* redirect_http out: both groups of labels are there
C18_Witness ==
    /\ run_cmd.status = "assembled"
    /\ UserValue("https", "enabled") = PyBool(TRUE)
    /\ UserValue("https", "redirect_http") = Missing
    /\ SecureRouter("blog") \cup RedirectMiddleware("blog") \subseteq Labels
    /\ Cardinality(Labels) = 8

----------------------------------------------------------------------------
(* Claims about two applications, under SpecTwoApps *)

\* The application a container belongs to: the one it runs, or the one whose
\* sidecar it is (the label launchbox.app, database_manager.py:87)
Owner(c) ==
    IF c.service = "app"
    THEN c.name
    ELSE CHOOSE app \in TwoApps : c.name = container_name(app, "postgresql")

\* C19: a step of a deployment removes and starts only containers of its own
\* application, and the sidecar it goes on with is one of its own application
\* (the names a deployment touches being no names of another application).
C19_ApplicationsIsolated ==
    [][\A p \in Procs :
        /\ (pc[p] \in {"rm", "db_start"} /\ pc'[p] # pc[p]) =>
              \A c \in containers : c \notin containers' => Owner(c) = app_name[p]
        /\ (pc[p] \in {"db_get", "db_start"} /\ pc'[p] = "rm") =>
              \A c \in Named(containers', container_name(app_name[p], "postgresql")) :
                    Owner(c) = app_name[p]
      ]_vars

----------------------------------------------------------------------------
(* Claims about concurrent deployments of one application, under SpecRace *)

\* run() of invocation p got as far as docker run
IssuedRun(p) ==
    \/ run_result[p] = Returned
    \/ run_result[p] = Raised("DeploymentError", <<"Docker run failed">>)

\* C20: when a deployment issues its docker run after another deployment of
\* the same application has issued its own (and docker run does not fail for
\* a reason other than the name), the application then has exactly one
\* container, the one this docker run created, and the deployment succeeds.
C20_LastWriterWins ==
    [][\A p, q \in Procs :
        (/\ p # q
         /\ app_name[p] = app_name[q]
         /\ pc[p] = "docker_run"
         /\ pc'[p] = "idle"
         /\ pc[q] = "idle"
         /\ IssuedRun(q)
         /\ ~(last_call'.rc # 0 /\ Named(containers, app_name[p]) = {})) =>
            /\ run_result'[p] = Returned
            /\ Cardinality(Named(containers', app_name[p])) = 1
            /\ \A c \in Named(containers', app_name[p]) : c.id = container_id'[p]
      ]_vars

----------------------------------------------------------------------------
(* Claims about the outcomes of build() and run(), under Spec *)

\* C25: build() calls docker build only when the directory and the Dockerfile
\* exist, and then once; it returns True exactly when that call exited 0 and
\* raises BuildError in every other case.
C25_BuildOutcome ==
    [][\A p \in Procs :
        /\ last_call'.op = "build" => \E q \in Procs : pc[q] = "docker_build" /\ pc'[q] # pc[q]
        /\ (pc[p] = "build" /\ pc'[p] # "build") =>
              /\ last_call' = NoCall
              /\ IF app_exists[p] /\ dockerfile_exists[p]
                 THEN pc'[p] = "docker_build" /\ build_result'[p] = Pending
                 ELSE /\ pc'[p] # "docker_build"
                      /\ build_result'[p].status = "raised"
                      /\ build_result'[p].type = "BuildError"
        /\ (pc[p] = "docker_build" /\ pc'[p] # "docker_build") =>
              /\ app_exists[p] /\ dockerfile_exists[p]
              /\ last_call'.op = "build"
              /\ build_result'[p] = Returned <=> last_call'.rc = 0
              /\ last_call'.rc # 0 =>
                    /\ build_result'[p].status = "raised"
                    /\ build_result'[p].type = "BuildError"
        /\ (pc[p] = "docker_build" /\ pc'[p] = "docker_build") => UNCHANGED build_result
      ]_vars

\* docker build has exited with 1 and build() has raised BuildError
C25_Witness ==
    /\ last_call = Call("build", image_name(app_name[1]), 1)
    /\ build_result[1] = Raised("BuildError", <<"Docker build failed">>)
    /\ app_exists[1] /\ dockerfile_exists[1]

\* C26: run() returns True only in the step in which docker run exits 0; every
\* other end of run() is a DeploymentError: the one raised inside as it is, any
\* other exception wrapped with its message.
C26_RunOutcome ==
    /\ [](\A p \in Procs :
            /\ run_result[p].status = "raised" => run_result[p].type = "DeploymentError"
            /\ db_exception[p].status = "raised" =>
                  run_result[p] = Raised("DeploymentError",
                                         <<"Unexpected deployment error">> \o db_exception[p].msg))
    /\ [][\A p \in Procs :
            /\ (run_result'[p] = Returned /\ run_result[p] # Returned) =>
                  /\ pc[p] = "docker_run"
                  /\ last_call' = Call("run", app_name[p], 0)
            /\ (pc[p] = "docker_run" /\ pc'[p] = "idle" /\ last_call'.rc # 0) =>
                  run_result'[p] = Raised("DeploymentError", <<"Docker run failed">>)
            /\ (pc[p] \in {"run", "db_get", "db_start", "db_create", "db_wait", "rm", "docker_run"}
                  /\ pc'[p] = "idle") => run_result'[p].status \in {"returned", "raised"}
         ]_vars

\* the readiness wait of a sidecar has run out and run() has raised the
\* DeploymentError that wraps the DatabaseError
C26_Witness ==
    /\ pc[1] = "idle"
    /\ db_exception[1].type = "DatabaseError"
    /\ last_call.op = "exec"
    /\ last_call.n = timeout
    /\ run_result[1].type = "DeploymentError"
    /\ run_result[1].msg = <<"Unexpected deployment error">> \o db_exception[1].msg

\* C27: while the configuration has database.enabled = false, nothing the
\* database manager does makes run() fail.
C27_DisabledNeverFails ==
    \A p \in Procs : ~config[p].db_enabled => db_exception[p] = Pending

\* C28: a deployment that has begun comes to its end, with a result or an error,
\* when every call of the container runtime returns.
C28_DeployTerminates ==
    \A p \in Procs : (pc[p] # "idle") ~> (pc[p] = "idle")

\* a deployment has ended because the sidecar was not ready after timeout probes
C28_Witness ==
    /\ pc[1] = "idle"
    /\ last_call.op = "exec"
    /\ last_call.n = timeout
    /\ ~ready[1]
    /\ db_exception[1] =
          create_except(config[1].db_type,
                        timeout_error(config[1].db_type,
                                      container_name(app_name[1], config[1].db_type), timeout))

----------------------------------------------------------------------------
(* Claims about the operations on deployed applications, under SpecOps *)

\* the names remove_database_for_app looks up for app
names_of_sidecars(app) == {sidecar_name(app, k) : k \in DbKinds}

\* C21: a database sidecar is there, and running if it was, after every step
\* of a deployment and after every stop, start and logs operation, whatever the
\* application (the remove operation of an application is left aside, the
\* database remove operation of the sidecar's own application is allowed).
C21_SidecarPersists ==
    [][\A c \in containers :
          c.service = "database" =>
             \/ \E d \in containers' :
                   /\ d.name = c.name
                   /\ d.id = c.id
                   /\ c.status = "running" => d.status = "running"
             \/ /\ last_call'.op = "remove_database"
                /\ c.name \in names_of_sidecars(last_call'.name)
             \/ last_call'.op = "remove"
      ]_vars

\* C22: when the remove operation of an application has answered with success,
\* no container named as one of the application's sidecars is left.
C22_RemoveLeavesNoSidecar ==
    [][(last_call'.op = "remove" /\ last_call'.value = 200) =>
          \A c \in containers' : c.name \notin names_of_sidecars(last_call'.name)
      ]_vars

\* C23: remove_database_for_app returns True exactly when one of the containers
\* <app>_postgres, <app>_mysql, <app>_mongodb was there and is gone after the
\* call; it touches no other container, and with none of the three there it
\* returns False and leaves the containers as they were.
C23_RemoveDatabase ==
    [][last_call'.op = "remove_database" =>
          LET app == last_call'.name
              before == {c \in containers : c.name \in names_of_sidecars(app)}
          IN  /\ last_call'.value = (\E c \in before : Named(containers', c.name) = {})
              /\ \A c \in containers \ before : c \in containers'
              /\ containers' \subseteq
                     containers \cup {[c EXCEPT !.status = "exited"] : c \in before}
              /\ before = {} => containers' = containers /\ last_call'.value = FALSE
      ]_vars

\* the one sidecar of blog was stopped and removed, the call returned True
C23_Witness ==
    /\ last_call = Removal("blog", TRUE, {})
    /\ Named(containers, "blog_postgres") = {}
    /\ Named(containers, "blog") # {}

----------------------------------------------------------------------------
(* Claims about the certificate manager, under SpecSsl *)

\* C24: once get_certificate_for_app has returned for an application, every
\* later call for it returns the same two paths and runs no mkcert command.
C24_RetrievalIdempotent ==
    [][\A app \in CertApps :
          (/\ issued[app] # <<>>
           /\ ssl_returned'.call = "get_certificate_for_app"
           /\ ssl_returned'.app = app) =>
              /\ ssl_returned' = SslReturn("get_certificate_for_app", app, issued[app])
              /\ tool_calls' = <<>>
      ]_vars

\* C29: a call that runs the certificate generation has the trust root
\* installed when the generation starts.
C29_TrustRootBeforeGeneration ==
    [][(\E i \in DOMAIN tool_calls' : tool_calls'[i] = "mkcert -cert-file") => ca_installed']_vars

----------------------------------------------------------------------------
(* Claims about the routing labels of two applications, under SpecLabels *)

\* the keys of the labels of a command, traefik.enable left out: a key names
\* the kind (routers, services, middlewares), the declared name and an option
DeclaredKeys(cmd) ==
    {cmd.args[i].key : i \in {j \in DOMAIN cmd.args : cmd.args[j].flag = "--label"}}
        \ {"traefik.enable"}

\* a launchbox.yaml with nothing but the https section
HttpsFile(https) == Loaded(Sections(Missing, Missing, Missing, Missing, https))

\* C30: the command assembled for an application declares no router, service
\* or middleware that the command of another application declares, whatever
\* the https sections of the two.
C30_LabelNamesDisjoint ==
    run_cmd.status = "assembled" =>
        \A b \in LabelApps \ {returned.app}, https \in HttpsOptions :
            DeclaredKeys(run_cmd) \cap DeclaredKeys(run_command(b, HttpsFile(https), AbsentEnv)) = {}

----------------------------------------------------------------------------
(* Claims about the merge, under SpecConfig *)

\* result is what the claim asks of the merge of base and override: the keys of
\* both; a mapping on both sides merged the same way; any other key of the
\* override with the override's value; the rest with the base's value
RECURSIVE Merged(_, _, _)
Merged(base, override, result) ==
    /\ DOMAIN result = DOMAIN base \cup DOMAIN override
    /\ \A key \in DOMAIN result :
          IF key \in DOMAIN base /\ key \in DOMAIN override
                /\ base[key].t = "dict" /\ override[key].t = "dict"
          THEN /\ result[key].t = "dict"
               /\ Merged(base[key].m, override[key].m, result[key].m)
          ELSE IF key \in DOMAIN override
          THEN result[key] = override[key]
          ELSE result[key] = base[key]

\* C31: what _deep_merge returns has every key of the base and of the
\* override; a key that is a mapping on both sides holds the merge of the two
\* mappings, any other key of the override holds the override's value, a key of
\* the base alone holds the base's value.
C31_MergeKeyWise ==
    returned.call = "_deep_merge" =>
        /\ returned.value.t = "dict"
        /\ Merged(returned.base, returned.override, returned.value.m)

\* the default was merged with a user mapping whose database section names the
\* database and whose environment section has a key the default does not know:
\* the section keeps the default's version next to the user's name
C31_Witness ==
    /\ returned.call = "_deep_merge"
    /\ returned.base = default_config.m
    /\ {"database", "environment"} \subseteq DOMAIN returned.override
    /\ returned.override["database"] = PyDict([enabled |-> PyBool(TRUE), name |-> PyStr("shop")])
    /\ returned.override["environment"] = PyDict([A |-> PyBool(FALSE)])
    /\ returned.value.m["database"].m["name"] = PyStr("shop")
    /\ returned.value.m["database"].m["version"] = default_config.m["database"].m["version"]
    /\ returned.value.m["environment"].m["A"] = PyBool(FALSE)
    /\ returned.value.m["https"] = default_config.m["https"]

----------------------------------------------------------------------------
(* Claims about a sidecar whose readiness wait ran out, under Spec *)

\* C32: the readiness wait is entered only after the sidecar was created by
\* this deployment; when it runs out, the deployment's database step raises
\* DatabaseError and the containers are what they were, the sidecar among
\* them.  No later step takes a sidecar away, and a lookup that finds the
\* sidecar never leads to the creation of one.
C32_TimedOutSidecarStays ==
    [][\A p \in Procs :
        LET name == container_name(app_name[p], config[p].db_type) IN
        /\ (pc[p] # "db_wait" /\ pc'[p] = "db_wait") =>
              /\ pc[p] = "db_create"
              /\ Named(containers, name) = {}
              /\ Named(containers', name) # {}
        /\ (pc[p] = "db_wait" /\ pc'[p] = "idle") =>
              /\ last_call'.n = timeout
              /\ db_exception'[p].status = "raised"
              /\ db_exception'[p].type = "DatabaseError"
              /\ containers' = containers
              /\ Named(containers', name) # {}
        /\ \A c \in containers :
              c.service = "database" =>
                 \E d \in containers' : d.name = c.name /\ d.id = c.id
        /\ (pc[p] = "db_get" /\ pc'[p] # "db_get" /\ Named(containers, name) # {}) =>
              /\ last_call' = Call("get", name, 0)
              /\ pc'[p] \in {"rm", "db_start"}
              /\ containers' = containers
      ]_vars

\* the wait for a sidecar has run out: the deployment has failed and the
\* sidecar it created is among the containers, running
C32_Witness ==
    LET name == container_name(app_name[1], config[1].db_type) IN
    /\ pc[1] = "idle"
    /\ last_call = Probe(name, 1, FALSE, timeout)
    /\ db_exception[1].type = "DatabaseError"
    /\ \E c \in Named(containers, name) : c.status = "running" /\ c.service = "database"

----------------------------------------------------------------------------
(* Claims about the removal of several sidecars, under SpecRemove *)

\* C33: remove_database_for_app ends by returning a boolean, and every
\* container <app>_<kind> that was there and for which no failure of stop() or
\* remove() was met is gone afterwards, whatever happened with the other kinds.
C33_RemoveGoesOn ==
    [][last_call'.op = "remove_database" =>
          /\ last_call'.value \in BOOLEAN
          /\ last_call'.raised = FALSE
          /\ \A k \in DbKinds :
                (/\ Named(containers, sidecar_name(last_call'.name, k)) # {}
                 /\ k \notin last_call'.warnings) =>
                      Named(containers', sidecar_name(last_call'.name, k)) = {}
      ]_vars

\* the removal of the postgres sidecar failed, the mysql sidecar was removed
\* by the same call, which returned True
C33_Witness ==
    /\ last_call = Removal("blog", TRUE, {"postgres"})
    /\ Named(containers, "blog_postgres") # {}
    /\ Named(containers, "blog_mysql") = {}

----------------------------------------------------------------------------
(* Claims about the dashboard's remove operation, under SpecOps *)

\* C34: when the remove operation of an application answers with success, no
\* container named as the application is left; and when there was none, the
\* operation answers with success and the containers are what they were.
C34_RemoveIdempotent ==
    [][last_call'.op = "remove" =>
          /\ last_call'.value = 200 => Named(containers', last_call'.name) = {}
          /\ Named(containers, last_call'.name) = {} =>
                /\ last_call'.value = 200
                /\ containers' = containers
      ]_vars

====
